---- MODULE Spec2Model ----
(***************************************************************************)
(* skillink: the reconciliation engine of src/src/sync.ts (syncSkills,     *)
(* cleanSkills, getStatus) over a small project tree.                      *)
(*                                                                         *)
(* A path string is a sequence of segments; the marker "/" in first        *)
(* position makes it absolute.  The project tree is the canonical source   *)
(* directory and two mirror directories, each holding entries for a few    *)
(* names; an entry is nothing, a real directory, a real file or a          *)
(* symbolic link with a stored text.                                       *)
(***************************************************************************)
EXTENDS Integers, Sequences, FiniteSets, TLC

VARIABLES fs, options, last, external

vars == <<fs, options, last, external>>

----------------------------------------------------------------------------
(* Bounds of the model *)

\* how many symbolic links the host follows before giving up on a path
MaxFollow == 2

\* entry names that occur in the modelled directories, in listing order
NameOrder == <<"a", "b">>

Names == {NameOrder[i] : i \in 1..Len(NameOrder)}

----------------------------------------------------------------------------
(* Path arithmetic (node:path join / relative, String.startsWith) *)

Root == <<"/", "proj">>

CANONICAL_SOURCE == <<".agents", "skills">>

IsAbs(p) == p /= <<>> /\ p[1] = "/"

Last(s) == s[Len(s)]

Front(s) == SubSeq(s, 1, Len(s) - 1)

RECURSIVE NormSegs(_, _, _)
\* normalisation of the segments of a path: "." and empty segments vanish,
\* ".." removes the segment before it (and vanishes at the root of an
\* absolute path, stays at the head of a relative one)
NormSegs(segs, acc, abs) ==
  IF segs = <<>> THEN acc
  ELSE LET h == Head(segs)
           t == Tail(segs)
       IN IF h = "/" \/ h = "." \/ h = ""
            THEN NormSegs(t, acc, abs)
          ELSE IF h = ".."
            THEN IF acc /= <<>> /\ Last(acc) /= ".."
                   THEN NormSegs(t, Front(acc), abs)
                 ELSE IF abs THEN NormSegs(t, acc, abs)
                 ELSE NormSegs(t, Append(acc, ".."), abs)
          ELSE NormSegs(t, Append(acc, h), abs)

\* path.join(p, q): concatenate with a separator, then normalise.  An
\* absolute q does not restart the path: its leading separator is one more
\* separator inside the joined string.
Join(p, q) ==
  LET abs  == IsAbs(p) \/ (p = <<>> /\ IsAbs(q))
      body == NormSegs(p \o q, <<>>, abs)
  IN IF abs THEN <<"/">> \o body
     ELSE IF body = <<>> THEN <<".">> ELSE body

RECURSIVE CommonLen(_, _)
CommonLen(p, q) ==
  IF p = <<>> \/ q = <<>> \/ Head(p) /= Head(q) THEN 0
  ELSE 1 + CommonLen(Tail(p), Tail(q))

\* path.relative(from, to) of two absolute, normalised paths
Relative(from, to) ==
  LET k == CommonLen(from, to)
  IN [i \in 1..(Len(from) - k) |-> ".."] \o SubSeq(to, k + 1, Len(to))

\* the characters of a segment, cut into pieces none of which is a string
\* prefix of another, so that prefix of strings is prefix of piece sequences
Pieces(seg) == IF seg = "skills-old" THEN <<"skills", "-old">> ELSE <<seg>>

RECURSIVE Str(_)
\* the string of an absolute normalised path, as a sequence of pieces
Str(p) ==
  IF p = <<>> THEN <<>>
  ELSE IF Head(p) = "/" THEN Str(Tail(p))
  ELSE <<"/">> \o Pieces(Head(p)) \o Str(Tail(p))

\* String.prototype.startsWith
StartsWith(s, prefix) ==
  Len(s) >= Len(prefix) /\ SubSeq(s, 1, Len(prefix)) = prefix

----------------------------------------------------------------------------
(* The project tree *)

CanonicalDir == Join(Root, CANONICAL_SOURCE)

ClaudeDir == Join(Root, <<".claude", "skills">>)

OpencodeDir == Join(Root, <<".opencode", "skills">>)

MirrorDirs == {ClaudeDir, OpencodeDir}

Dirs == {CanonicalDir} \cup MirrorDirs

\* a directory outside the managed tree that always exists
ExternalDirs == {Join(Root, <<"wrong">>)}

NoEntry == [kind |-> "none", text |-> <<>>]

RealDir == [kind |-> "dir", text |-> <<>>]

RealFile == [kind |-> "file", text |-> <<>>]

Link(text) == [kind |-> "link", text |-> text]

NoEntries == [n \in Names |-> NoEntry]

MissingDir == [kind |-> "missing", writable |-> TRUE, entries |-> NoEntries]

FileAtDir == [kind |-> "file", writable |-> TRUE, entries |-> NoEntries]

Directory(w, es) == [kind |-> "dir", writable |-> w, entries |-> es]

\* a directory without any permission for the user who runs the engine: it
\* can be seen, its entries cannot
LockedDir(es) == [kind |-> "locked", writable |-> FALSE, entries |-> es]

\* what lstat gives for a path whose metadata cannot be read (EACCES)
Unreadable == [kind |-> "eacces", text |-> <<>>]

\* lstat without following: the entry at a path, NoEntry when there is none
\* (ENOENT, or ENOTDIR below something that is not a directory), Unreadable
\* when the directory that holds it cannot be searched
Lstat(f, path) ==
  IF path \in Dirs
    THEN IF f[path].kind \in {"dir", "locked"} THEN RealDir
         ELSE IF f[path].kind = "file" THEN RealFile
         ELSE NoEntry
  ELSE IF path \in ExternalDirs THEN RealDir
  ELSE IF Len(path) > 1 /\ Front(path) \in Dirs /\ Last(path) \in Names
    THEN IF f[Front(path)].kind = "dir"
           THEN f[Front(path)].entries[Last(path)]
         ELSE IF f[Front(path)].kind = "locked" THEN Unreadable
         ELSE NoEntry
  ELSE IF \E d \in Dirs : f[d].kind /= "missing" /\ Len(path) < Len(d)
                          /\ SubSeq(d, 1, Len(path)) = path
    THEN RealDir
  ELSE NoEntry

\* where the host resolves the text of a link that lives in directory dir
ResolveLink(dir, text) ==
  IF IsAbs(text) THEN Join(text, <<>>) ELSE Join(dir, text)

RECURSIVE Follow(_, _, _)
\* stat following links: does the path lead to something that exists; any
\* error of the call counts as "does not exist"
Follow(f, path, fuel) ==
  LET e == Lstat(f, path)
  IN IF e.kind = "link"
       THEN IF fuel = 0 THEN FALSE
            ELSE Follow(f, ResolveLink(Front(path), e.text), fuel - 1)
     ELSE e.kind \notin {"none", "eacces"}

existsSync(f, path) == Follow(f, path, MaxFollow)

readlinkSync(f, path) == Lstat(f, path).text

\* lstatSync(path).isSymbolicLink(), false when lstatSync raises
isSymlink(f, path) ==
  LET e == Lstat(f, path)
  IN IF e.kind \in {"none", "eacces"} THEN FALSE ELSE e.kind = "link"

----------------------------------------------------------------------------
(* Mutating system calls: each returns the new tree or the error it raises *)

Done(f) == [ok |-> TRUE, fs |-> f, err |-> "none"]

Raise(f, e) == [ok |-> FALSE, fs |-> f, err |-> e]

unlinkSync(f, path) ==
  LET d == Front(path)
      n == Last(path)
  IN IF d \in Dirs /\ f[d].kind = "locked" THEN Raise(f, "EACCES: unlink")
     ELSE IF ~(d \in Dirs /\ n \in Names) \/ f[d].kind /= "dir"
          \/ f[d].entries[n].kind = "none"
       THEN Raise(f, "ENOENT: unlink")
     ELSE IF f[d].entries[n].kind = "dir" THEN Raise(f, "EPERM: unlink")
     ELSE IF ~f[d].writable THEN Raise(f, "EACCES: unlink")
     ELSE Done([f EXCEPT ![d].entries[n] = NoEntry])

\* mkdirSync(dir, { recursive: true })
mkdirSync(f, d) ==
  IF d \notin Dirs THEN Raise(f, "EACCES: mkdir")
  ELSE IF f[d].kind \in {"dir", "locked"} THEN Done(f)
  ELSE IF f[d].kind = "file" THEN Raise(f, "EEXIST: mkdir")
  ELSE Done([f EXCEPT ![d] = Directory(TRUE, NoEntries)])

symlinkSync(f, text, path) ==
  LET d == Front(path)
      n == Last(path)
  IN IF d \in Dirs /\ f[d].kind = "locked" THEN Raise(f, "EACCES: symlink")
     ELSE IF ~(d \in Dirs /\ n \in Names) \/ f[d].kind /= "dir" \/ text = <<>>
       THEN Raise(f, "ENOENT: symlink")
     ELSE IF f[d].entries[n].kind /= "none" THEN Raise(f, "EEXIST: symlink")
     ELSE IF ~f[d].writable THEN Raise(f, "EACCES: symlink")
     ELSE Done([f EXCEPT ![d].entries[n] = Link(text)])

----------------------------------------------------------------------------
(* Options and reports *)

\* agents of the registry, in the order Object.entries lists them
agents ==
  << [name |-> "opencode", skillsDir |-> <<".opencode", "skills">>],
     [name |-> "claude-code", skillsDir |-> <<".claude", "skills">>] >>

\* a caller's configuration in which both targets mirror into one directory
sharedAgents ==
  << [name |-> "opencode", skillsDir |-> <<".claude", "skills">>],
     [name |-> "claude-code", skillsDir |-> <<".claude", "skills">>] >>

\* a caller's configuration with one target that mirrors into the canonical
\* source root itself
selfAgents ==
  << [name |-> "universal", skillsDir |-> <<".agents", "skills">>] >>

AgentNames == {agents[i].name : i \in 1..Len(agents)}

\* options.filterAgents is optional: NoFilter stands for its absence
NoFilter == {"*"}

\* the SyncOptions of a caller (dryRun is chosen per call)
OptionSets ==
  { [agents |-> agents, filterAgents |-> NoFilter],
    [agents |-> agents, filterAgents |-> {"claude-code"}],
    [agents |-> sharedAgents, filterAgents |-> NoFilter],
    [agents |-> sharedAgents, filterAgents |-> {"claude-code"}],
    [agents |-> selfAgents, filterAgents |-> NoFilter] }

NoReason == ""

EmptyResult == [created |-> <<>>, skipped |-> <<>>, failed |-> <<>>]

SyncEntry(skill, agent, reason) ==
  [skill |-> skill, agent |-> agent, reason |-> reason]

\* Array.prototype.filter on a sequence
RECURSIVE SelectSeq2(_, _)
SelectSeq2(s, keep) ==
  IF s = <<>> THEN <<>>
  ELSE IF Head(s) \in keep THEN <<Head(s)>> \o SelectSeq2(Tail(s), keep)
  ELSE SelectSeq2(Tail(s), keep)

\* targetAgents that takes every configured target, filter or not
targetAgents_IgnoresFilter(opts) == opts.agents

\* the targetAgents of an invocation: the entries of options.agents, kept
\* when there is no filter or the filter includes their name
targetAgents(opts) ==
  IF opts.filterAgents = NoFilter THEN opts.agents
  ELSE SelectSeq2(opts.agents,
                  {opts.agents[i] : i \in
                     {j \in 1..Len(opts.agents) :
                        opts.agents[j].name \in opts.filterAgents}})

\* discoverSkills: the names of the directories directly under the source
\* root, in listing order; it raises when the source root does not exist
ConfigError == ".agents/skills does not exist in /proj"

\* discoverSkills that finds no skills when the source root is missing
discoverSkills_NoExistenceCheck(f) ==
  LET skillsDir == Join(Root, CANONICAL_SOURCE)
  IN IF Lstat(f, skillsDir).kind /= "dir"
       THEN [ok |-> TRUE, err |-> "none", skills |-> <<>>]
     ELSE [ok |-> TRUE, err |-> "none",
           skills |-> SelectSeq2(NameOrder,
                        {n \in Names : f[skillsDir].entries[n].kind = "dir"})]

discoverSkills(f) ==
  LET skillsDir == Join(Root, CANONICAL_SOURCE)
  IN IF ~existsSync(f, skillsDir)
       THEN [ok |-> FALSE, err |-> ConfigError, skills |-> <<>>]
     ELSE IF Lstat(f, skillsDir).kind /= "dir"
       THEN [ok |-> FALSE, err |-> "ENOTDIR: scandir", skills |-> <<>>]
     ELSE [ok |-> TRUE, err |-> "none",
           skills |-> SelectSeq2(NameOrder,
                        {n \in Names : f[skillsDir].entries[n].kind = "dir"})]

----------------------------------------------------------------------------
(* syncSkills *)

\* the state of a running invocation: the tree, the result so far, and the
\* exception that ended it, if any
Running(f) == [fs |-> f, result |-> EmptyResult, threw |-> FALSE, err |-> "none"]

Throw(st, f, e) == [st EXCEPT !.fs = f, !.threw = TRUE, !.err = e]

\* PushSkipped that forgets the outcome
PushSkipped_Drops(st, e) == st

PushSkipped(st, e) ==
  [st EXCEPT !.result.skipped = Append(@, e)]

PushCreated(st, f, e) ==
  [st EXCEPT !.fs = f, !.result.created = Append(@, e)]

\* lines 95-103: create the symlink (the mirror root first)
SyncCreate(st, f, agentSkillsDir, source, target, entry, dryRun) ==
  LET relativeSource == Relative(agentSkillsDir, source)
  IN IF dryRun THEN PushCreated(st, f, entry)
     ELSE LET m == mkdirSync(f, agentSkillsDir)
          IN IF ~m.ok THEN Throw(st, m.fs, m.err)
             ELSE LET s == symlinkSync(m.fs, relativeSource, target)
                  IN IF ~s.ok THEN Throw(st, s.fs, s.err)
                     ELSE PushCreated(st, s.fs, entry)

\* SyncTarget without the check that the existing entry is a symbolic link:
\* whatever is in the way is removed and replaced
SyncTarget_ReplacesAnyEntry(st, f, agent, skill, dryRun, agentSkillsDir, source, target) ==
  IF existsSync(f, target) \/ isSymlink(f, target)
    THEN IF isSymlink(f, target)
              /\ readlinkSync(f, target) = Relative(agentSkillsDir, source)
           THEN PushSkipped(st,
                  SyncEntry(skill, agent.name, "already linked"))
         ELSE LET u == IF dryRun THEN Done(f) ELSE unlinkSync(f, target)
              IN IF ~u.ok THEN Throw(st, u.fs, u.err)
                 ELSE SyncCreate(st, u.fs, agentSkillsDir, source, target,
                                 SyncEntry(skill, agent.name, NoReason),
                                 dryRun)
  ELSE SyncCreate(st, f, agentSkillsDir, source, target,
                  SyncEntry(skill, agent.name, NoReason), dryRun)

\* SyncTarget comparing where the stored text leads instead of the text
SyncTarget_ComparesResolved(st, f, agent, skill, dryRun, agentSkillsDir, source, target) ==
  IF existsSync(f, target) \/ isSymlink(f, target)
    THEN IF isSymlink(f, target)
           THEN IF ResolveLink(agentSkillsDir, readlinkSync(f, target)) = source
                  THEN PushSkipped(st,
                         SyncEntry(skill, agent.name, "already linked"))
                ELSE LET u == IF dryRun THEN Done(f)
                              ELSE unlinkSync(f, target)
                     IN IF ~u.ok THEN Throw(st, u.fs, u.err)
                        ELSE SyncCreate(st, u.fs, agentSkillsDir, source,
                                        target,
                                        SyncEntry(skill, agent.name, NoReason),
                                        dryRun)
         ELSE PushSkipped(st,
                SyncEntry(skill, agent.name,
                          "real directory exists, skipping"))
  ELSE SyncCreate(st, f, agentSkillsDir, source, target,
                  SyncEntry(skill, agent.name, NoReason), dryRun)

\* SyncTarget comparing the stored text with the absolute source path
\* instead of the relative one: no existing link is ever found correct
SyncTarget_ComparesAbsolute(st, f, agent, skill, dryRun, agentSkillsDir, source, target) ==
  IF existsSync(f, target) \/ isSymlink(f, target)
    THEN IF isSymlink(f, target)
           THEN IF readlinkSync(f, target) = source
                  THEN PushSkipped(st,
                         SyncEntry(skill, agent.name, "already linked"))
                ELSE LET u == IF dryRun THEN Done(f)
                              ELSE unlinkSync(f, target)
                     IN IF ~u.ok THEN Throw(st, u.fs, u.err)
                        ELSE SyncCreate(st, u.fs, agentSkillsDir, source,
                                        target,
                                        SyncEntry(skill, agent.name, NoReason),
                                        dryRun)
         ELSE PushSkipped(st,
                SyncEntry(skill, agent.name,
                          "real directory exists, skipping"))
  ELSE SyncCreate(st, f, agentSkillsDir, source, target,
                  SyncEntry(skill, agent.name, NoReason), dryRun)

\* SyncTarget that keeps any existing symbolic link, correct or not
SyncTarget_KeepsWrongLink(st, f, agent, skill, dryRun, agentSkillsDir, source, target) ==
  IF existsSync(f, target) \/ isSymlink(f, target)
    THEN IF isSymlink(f, target)
           THEN PushSkipped(st,
                  SyncEntry(skill, agent.name, "already linked"))
         ELSE PushSkipped(st,
                SyncEntry(skill, agent.name,
                          "real directory exists, skipping"))
  ELSE SyncCreate(st, f, agentSkillsDir, source, target,
                  SyncEntry(skill, agent.name, NoReason), dryRun)

\* SyncTarget that removes a wrong link in preview mode too
SyncTarget_UnlinksInPreview(st, f, agent, skill, dryRun, agentSkillsDir, source, target) ==
  IF existsSync(f, target) \/ isSymlink(f, target)
    THEN IF isSymlink(f, target)
           THEN IF readlinkSync(f, target) = Relative(agentSkillsDir, source)
                  THEN PushSkipped(st,
                         SyncEntry(skill, agent.name, "already linked"))
                ELSE LET u == unlinkSync(f, target)
                     IN IF ~u.ok THEN Throw(st, u.fs, u.err)
                        ELSE SyncCreate(st, u.fs, agentSkillsDir, source,
                                        target,
                                        SyncEntry(skill, agent.name, NoReason),
                                        dryRun)
         ELSE PushSkipped(st,
                SyncEntry(skill, agent.name,
                          "real directory exists, skipping"))
  ELSE SyncCreate(st, f, agentSkillsDir, source, target,
                  SyncEntry(skill, agent.name, NoReason), dryRun)

\* lines 69-103: inspect the link location of one pair and act on it
SyncTarget(st, f, agent, skill, dryRun, agentSkillsDir, source, target) ==
  IF existsSync(f, target) \/ isSymlink(f, target)
    THEN IF isSymlink(f, target)
           THEN LET currentTarget  == readlinkSync(f, target)
                    expectedTarget == Relative(agentSkillsDir, source)
                IN IF currentTarget = expectedTarget
                     THEN PushSkipped(st,
                            SyncEntry(skill, agent.name, "already linked"))
                   ELSE LET u == IF dryRun THEN Done(f)
                                 ELSE unlinkSync(f, target)
                        IN IF ~u.ok THEN Throw(st, u.fs, u.err)
                           ELSE SyncCreate(st, u.fs, agentSkillsDir, source,
                                           target,
                                           SyncEntry(skill, agent.name, NoReason),
                                           dryRun)
         ELSE PushSkipped(st,
                SyncEntry(skill, agent.name,
                          "real directory exists, skipping"))
  ELSE SyncCreate(st, f, agentSkillsDir, source, target,
                  SyncEntry(skill, agent.name, NoReason), dryRun)

\* lines 62-67: the paths of one (skill, agent) pair; an exception raised by
\* an earlier pair has ended the invocation
SyncPair(st, agent, skill, dryRun) ==
  IF st.threw THEN st
  ELSE SyncTarget(st, st.fs, agent, skill, dryRun,
                  Join(Root, agent.skillsDir),
                  Join(Join(Root, CANONICAL_SOURCE), <<skill>>),
                  Join(Join(Root, agent.skillsDir), <<skill>>))

RECURSIVE SyncSkillLoop(_, _, _, _)
SyncSkillLoop(st, agent, skills, dryRun) ==
  IF skills = <<>> THEN st
  ELSE SyncSkillLoop(SyncPair(st, agent, Head(skills), dryRun),
                     agent, Tail(skills), dryRun)

RECURSIVE SyncAgentLoop(_, _, _, _)
SyncAgentLoop(st, targets, skills, dryRun) ==
  IF targets = <<>> THEN st
  ELSE SyncAgentLoop(SyncSkillLoop(st, Head(targets), skills, dryRun),
                     Tail(targets), skills, dryRun)

\* syncSkills that links every known name, discovered or not
syncSkills_AllNames(f, opts, dryRun) ==
  LET d == discoverSkills(f)
  IN IF ~d.ok THEN Throw(Running(f), f, d.err)
     ELSE SyncAgentLoop(Running(f), targetAgents(opts), NameOrder, dryRun)

\* syncSkills(root, options): the final tree, and the result or the error
syncSkills(f, opts, dryRun) ==
  LET d == discoverSkills(f)
  IN IF ~d.ok THEN Throw(Running(f), f, d.err)
     ELSE SyncAgentLoop(Running(f), targetAgents(opts), d.skills, dryRun)

----------------------------------------------------------------------------
(* cleanSkills *)

\* readdirSync(dir): the names present in a directory, in listing order
readdirSync(f, d) ==
  SelectSeq2(NameOrder, {n \in Names : f[d].entries[n].kind /= "none"})

\* CleanTarget resolving the stored text against the project root instead of
\* the mirror root
CleanTarget_ResolvesFromRoot(st, f, agent, name, dryRun, agentSkillsDir, target) ==
  IF ~isSymlink(f, target)
    THEN PushSkipped(st,
           SyncEntry(name, agent.name, "not a symlink, preserving"))
  ELSE IF ~StartsWith(Str(Join(Root, readlinkSync(f, target))),
                      Str(Join(Root, CANONICAL_SOURCE)))
    THEN PushSkipped(st,
           SyncEntry(name, agent.name,
                     "symlink points elsewhere, preserving"))
  ELSE LET u == IF dryRun THEN Done(f) ELSE unlinkSync(f, target)
       IN IF ~u.ok THEN Throw(st, u.fs, u.err)
          ELSE PushCreated(st, u.fs, SyncEntry(name, agent.name, NoReason))

\* CleanTarget that lists the links it removes among the skipped entries
CleanTarget_SkipsWhatItRemoves(st, f, agent, name, dryRun, agentSkillsDir, target) ==
  IF ~isSymlink(f, target)
    THEN PushSkipped(st,
           SyncEntry(name, agent.name, "not a symlink, preserving"))
  ELSE IF ~StartsWith(Str(Join(agentSkillsDir, readlinkSync(f, target))),
                      Str(Join(Root, CANONICAL_SOURCE)))
    THEN PushSkipped(st,
           SyncEntry(name, agent.name,
                     "symlink points elsewhere, preserving"))
  ELSE LET u == IF dryRun THEN Done(f) ELSE unlinkSync(f, target)
       IN IF ~u.ok THEN Throw(st, u.fs, u.err)
          ELSE PushSkipped([st EXCEPT !.fs = u.fs],
                           SyncEntry(name, agent.name, "removed"))

\* lines 141-163: inspect one entry of a mirror root and act on it
CleanTarget(st, f, agent, name, dryRun, agentSkillsDir, target) ==
  IF ~isSymlink(f, target)
    THEN PushSkipped(st,
           SyncEntry(name, agent.name, "not a symlink, preserving"))
  ELSE LET linkTarget     == readlinkSync(f, target)
           resolvedTarget == Join(agentSkillsDir, linkTarget)
           canonicalDir   == Join(Root, CANONICAL_SOURCE)
       IN IF ~StartsWith(Str(resolvedTarget), Str(canonicalDir))
            THEN PushSkipped(st,
                   SyncEntry(name, agent.name,
                             "symlink points elsewhere, preserving"))
          ELSE LET u == IF dryRun THEN Done(f) ELSE unlinkSync(f, target)
               IN IF ~u.ok THEN Throw(st, u.fs, u.err)
                  ELSE PushCreated(st, u.fs,
                         SyncEntry(name, agent.name, NoReason))

\* lines 133-139: the paths of one entry of a mirror root
CleanEntry(st, agent, name, dryRun) ==
  IF st.threw THEN st
  ELSE CleanTarget(st, st.fs, agent, name, dryRun,
                   Join(Root, agent.skillsDir),
                   Join(Join(Root, agent.skillsDir), <<name>>))

RECURSIVE CleanEntryLoop(_, _, _, _)
CleanEntryLoop(st, agent, entries, dryRun) ==
  IF entries = <<>> THEN st
  ELSE CleanEntryLoop(CleanEntry(st, agent, Head(entries), dryRun),
                      agent, Tail(entries), dryRun)

\* CleanAgent that walks the discovered items instead of the entries of the
\* mirror root
CleanAgent_ByItems(st, agent, dryRun) ==
  IF st.threw THEN st
  ELSE LET agentSkillsDir == Join(Root, agent.skillsDir)
       IN IF ~existsSync(st.fs, agentSkillsDir) THEN st
          ELSE IF Lstat(st.fs, agentSkillsDir).kind /= "dir"
            THEN Throw(st, st.fs, "ENOTDIR: scandir")
          ELSE IF st.fs[agentSkillsDir].kind = "locked"
            THEN Throw(st, st.fs, "EACCES: scandir")
          ELSE CleanEntryLoop(st, agent,
                 SelectSeq2(discoverSkills_NoExistenceCheck(st.fs).skills,
                            {n \in Names :
                               st.fs[agentSkillsDir].entries[n].kind /= "none"}),
                 dryRun)

\* lines 124-164: one target; its mirror root is listed once, before the loop
CleanAgent(st, agent, dryRun) ==
  IF st.threw THEN st
  ELSE LET agentSkillsDir == Join(Root, agent.skillsDir)
       IN IF ~existsSync(st.fs, agentSkillsDir) THEN st
          ELSE IF Lstat(st.fs, agentSkillsDir).kind /= "dir"
            THEN Throw(st, st.fs, "ENOTDIR: scandir")
          ELSE IF st.fs[agentSkillsDir].kind = "locked"
            THEN Throw(st, st.fs, "EACCES: scandir")
          ELSE CleanEntryLoop(st, agent,
                              readdirSync(st.fs, agentSkillsDir), dryRun)

RECURSIVE CleanAgentLoop(_, _, _)
CleanAgentLoop(st, targets, dryRun) ==
  IF targets = <<>> THEN st
  ELSE CleanAgentLoop(CleanAgent(st, Head(targets), dryRun),
                      Tail(targets), dryRun)

cleanSkills(f, opts, dryRun) ==
  CleanAgentLoop(Running(f), targetAgents(opts), dryRun)

----------------------------------------------------------------------------
(* getStatus *)

\* lines 189-208: the bucket of one skill for one target
\* StatusTarget without the branch for real entries
StatusTarget_RealIsUnlinked(f, target, expectedTarget) ==
  IF isSymlink(f, target)
    THEN IF readlinkSync(f, target) = expectedTarget THEN "linked"
         ELSE "wrong"
  ELSE "unlinked"

\* StatusTarget that asks first whether the path leads anywhere
StatusTarget_FollowsLinks(f, target, expectedTarget) ==
  IF ~existsSync(f, target) THEN "unlinked"
  ELSE IF isSymlink(f, target)
    THEN IF readlinkSync(f, target) = expectedTarget THEN "linked"
         ELSE "wrong"
  ELSE "linked"

\* lines 196-208: the bucket of the entry at a link location
StatusTarget(f, target, expectedTarget) ==
  IF isSymlink(f, target)
    THEN IF readlinkSync(f, target) = expectedTarget THEN "linked"
         ELSE "wrong"
  ELSE IF existsSync(f, target) THEN "linked"
  ELSE "unlinked"

\* lines 190-194: the paths of one skill for one target
StatusBucket(f, agent, skill) ==
  StatusTarget(f, Join(Join(Root, agent.skillsDir), <<skill>>),
               Relative(Join(Root, agent.skillsDir),
                        Join(Join(Root, CANONICAL_SOURCE), <<skill>>)))

StatusEntry(f, agent, skills) ==
  [agent     |-> agent.name,
   skillsDir |-> agent.skillsDir,
   linked    |-> SelectSeq2(skills,
                   {k \in Names : StatusBucket(f, agent, k) = "linked"}),
   unlinked  |-> SelectSeq2(skills,
                   {k \in Names : StatusBucket(f, agent, k) = "unlinked"}),
   wrong     |-> SelectSeq2(skills,
                   {k \in Names : StatusBucket(f, agent, k) = "wrong"})]

getStatus(f, opts) ==
  LET d == discoverSkills(f)
      t == targetAgents(opts)
  IN IF ~d.ok THEN [ok |-> FALSE, err |-> d.err, statuses |-> <<>>]
     ELSE [ok |-> TRUE, err |-> "none",
           statuses |-> [i \in 1..Len(t) |-> StatusEntry(f, t[i], d.skills)]]

----------------------------------------------------------------------------
(* The state machine: a project tree and the engine's last invocation *)

\* link texts found in mirror roots before the engine runs: to the two
\* items, into a sibling of the source root, and out of the managed tree
LinkTexts ==
  { <<"..", "..", ".agents", "skills", "a">>,
    <<"..", "..", ".agents", "skills", "b">>,
    <<"..", "..", ".agents", "skills-old", "a">>,
    <<"..", "..", "wrong">> }

\* other spellings of a path to item a from a mirror root: with a leading
\* "./", and absolute
EquivalentTexts ==
  { <<".", "..", "..", ".agents", "skills", "a">>,
    <<"/", "proj", ".agents", "skills", "a">> }

\* .claude/skills: missing, a file, a writable directory with any
\* combination of entries, a read-only directory, or a directory without
\* any permission
ClaudeStates ==
  {MissingDir, FileAtDir}
    \cup {Directory(TRUE, es) :
            es \in [Names -> {NoEntry, RealDir} \cup {Link(t) : t \in LinkTexts}]}
    \cup {Directory(FALSE, es) :
            es \in [Names -> {NoEntry, RealDir,
                              Link(<<"..", "..", ".agents", "skills", "a">>)}]}
    \cup {LockedDir(es) : es \in [Names -> {NoEntry, RealDir}]}
    \cup {Directory(TRUE, [n \in Names |-> IF n = "a" THEN Link(t) ELSE e]) :
            t \in EquivalentTexts,
            e \in {NoEntry, RealDir,
                   Link(<<"..", "..", ".agents", "skills", "b">>)}}

\* .opencode/skills: missing, a file, or a writable directory
OpencodeStates ==
  {MissingDir, FileAtDir}
    \cup {Directory(TRUE, es) :
            es \in [Names -> {NoEntry, RealFile,
                              Link(<<"..", "..", ".agents", "skills", "a">>)}]}

\* .agents/skills: missing, an empty directory, or a directory with item a
\* and, possibly, item b or a symbolic link b to item a
SourceStates ==
  {MissingDir, Directory(TRUE, NoEntries)}
    \cup {Directory(TRUE, [n \in Names |-> IF n = "a" THEN RealDir ELSE e]) :
            e \in {NoEntry, RealDir, Link(<<"a">>)}}

Trees ==
  { [d \in Dirs |-> IF d = CanonicalDir THEN s
                    ELSE IF d = ClaudeDir THEN c ELSE o] :
      s \in SourceStates, c \in ClaudeStates, o \in OpencodeStates }

Invocation(op, dryRun, returned, err, result, status, pre) ==
  [op |-> op, dryRun |-> dryRun, returned |-> returned, err |-> err,
   result |-> result, status |-> status, pre |-> pre]

\* what another process did to a mirror root while the last invocation ran:
\* nothing, or the entry it put at the link location of one pair
NoExternal == [agent |-> "", skill |-> "", entry |-> NoEntry]

\* the tree is whatever the user and other tools left; the caller's options
\* (target registry and filter) stay the same between invocations
Init ==
  /\ fs \in Trees
  /\ options \in OptionSets
  /\ last = Invocation("none", FALSE, FALSE, "none", EmptyResult, <<>>, fs)
  /\ external = NoExternal

Sync ==
  \E dryRun \in BOOLEAN :
    \E r \in {syncSkills(fs, options, dryRun)} :
      /\ fs' = r.fs
      /\ last' = Invocation("sync", dryRun, ~r.threw, r.err,
                            IF r.threw THEN EmptyResult ELSE r.result,
                            <<>>, fs)
      /\ external' = NoExternal
      /\ UNCHANGED options

Clean ==
  \E dryRun \in BOOLEAN :
    \E r \in {cleanSkills(fs, options, dryRun)} :
      /\ fs' = r.fs
      /\ last' = Invocation("clean", dryRun, ~r.threw, r.err,
                            IF r.threw THEN EmptyResult ELSE r.result,
                            <<>>, fs)
      /\ external' = NoExternal
      /\ UNCHANGED options

\* a status call that repairs what it finds, as a non-preview sync would
Status_Repairs ==
  \E r \in {getStatus(fs, options)} :
    /\ last' = Invocation("status", FALSE, r.ok, r.err, EmptyResult,
                          r.statuses, fs)
    /\ fs' = syncSkills(fs, options, FALSE).fs
    /\ external' = NoExternal
    /\ UNCHANGED options

Status ==
  \E r \in {getStatus(fs, options)} :
    /\ last' = Invocation("status", FALSE, r.ok, r.err, EmptyResult,
                          r.statuses, fs)
    /\ external' = NoExternal
    /\ UNCHANGED <<fs, options>>

Next == Sync \/ Clean \/ Status

Spec == Init /\ [][Next]_vars

----------------------------------------------------------------------------
(* An invocation during which another process changes a mirror root.  The  *)
(* engine takes no lock: between the calls that inspect a link location    *)
(* and the calls that change it, the entry can be replaced.                *)

\* the entries another process leaves at a link location
ExternalEntries == {RealFile, RealDir}

\* the tree after another process has put an entry at a link location
Put(f, d, n, e) == [f EXCEPT ![d].entries[n] = e]

RacedRunning(f) ==
  [fs |-> f, result |-> EmptyResult, threw |-> FALSE, err |-> "none",
   raced |-> FALSE]

\* lines 69-103 when the tree changes after the inspection: the conditions
\* were read from the tree seen, the mutating calls meet the tree f
SyncTargetAt(st, seen, f, agent, skill, dryRun, agentSkillsDir, source, target) ==
  IF existsSync(seen, target) \/ isSymlink(seen, target)
    THEN IF isSymlink(seen, target)
           THEN LET currentTarget  == readlinkSync(seen, target)
                    expectedTarget == Relative(agentSkillsDir, source)
                IN IF currentTarget = expectedTarget
                     THEN PushSkipped(st,
                            SyncEntry(skill, agent.name, "already linked"))
                   ELSE LET u == IF dryRun THEN Done(f)
                                 ELSE unlinkSync(f, target)
                        IN IF ~u.ok THEN Throw(st, u.fs, u.err)
                           ELSE SyncCreate(st, u.fs, agentSkillsDir, source,
                                           target,
                                           SyncEntry(skill, agent.name, NoReason),
                                           dryRun)
         ELSE PushSkipped(st,
                SyncEntry(skill, agent.name,
                          "real directory exists, skipping"))
  ELSE SyncCreate(st, f, agentSkillsDir, source, target,
                  SyncEntry(skill, agent.name, NoReason), dryRun)

\* one pair of a sync; at the pair ext names, the other process acts right
\* after the engine has inspected the link location
SyncPairRaced(st, agent, skill, dryRun, ext) ==
  IF st.threw THEN st
  ELSE IF agent.name = ext.agent /\ skill = ext.skill
          /\ st.fs[Join(Root, agent.skillsDir)].kind = "dir"
    THEN LET f == Put(st.fs, Join(Root, agent.skillsDir), skill, ext.entry)
         IN SyncTargetAt([st EXCEPT !.fs = f, !.raced = TRUE], st.fs, f,
                         agent, skill, dryRun,
                         Join(Root, agent.skillsDir),
                         Join(Join(Root, CANONICAL_SOURCE), <<skill>>),
                         Join(Join(Root, agent.skillsDir), <<skill>>))
  ELSE SyncPair(st, agent, skill, dryRun)

RECURSIVE SyncSkillLoopRaced(_, _, _, _, _)
SyncSkillLoopRaced(st, agent, skills, dryRun, ext) ==
  IF skills = <<>> THEN st
  ELSE SyncSkillLoopRaced(SyncPairRaced(st, agent, Head(skills), dryRun, ext),
                          agent, Tail(skills), dryRun, ext)

RECURSIVE SyncAgentLoopRaced(_, _, _, _, _)
SyncAgentLoopRaced(st, targets, skills, dryRun, ext) ==
  IF targets = <<>> THEN st
  ELSE SyncAgentLoopRaced(
         SyncSkillLoopRaced(st, Head(targets), skills, dryRun, ext),
         Tail(targets), skills, dryRun, ext)

syncSkillsRaced(f, opts, dryRun, ext) ==
  LET d == discoverSkills(f)
  IN IF ~d.ok THEN Throw(RacedRunning(f), f, d.err)
     ELSE SyncAgentLoopRaced(RacedRunning(f), targetAgents(opts), d.skills,
                             dryRun, ext)

\* lines 141-163 when the tree changes after the inspection
CleanTargetAt(st, seen, f, agent, name, dryRun, agentSkillsDir, target) ==
  IF ~isSymlink(seen, target)
    THEN PushSkipped(st,
           SyncEntry(name, agent.name, "not a symlink, preserving"))
  ELSE LET linkTarget     == readlinkSync(seen, target)
           resolvedTarget == Join(agentSkillsDir, linkTarget)
           canonicalDir   == Join(Root, CANONICAL_SOURCE)
       IN IF ~StartsWith(Str(resolvedTarget), Str(canonicalDir))
            THEN PushSkipped(st,
                   SyncEntry(name, agent.name,
                             "symlink points elsewhere, preserving"))
          ELSE LET u == IF dryRun THEN Done(f) ELSE unlinkSync(f, target)
               IN IF ~u.ok THEN Throw(st, u.fs, u.err)
                  ELSE PushCreated(st, u.fs,
                         SyncEntry(name, agent.name, NoReason))

CleanEntryRaced(st, agent, name, dryRun, ext) ==
  IF st.threw THEN st
  ELSE IF agent.name = ext.agent /\ name = ext.skill
    THEN LET f == Put(st.fs, Join(Root, agent.skillsDir), name, ext.entry)
         IN CleanTargetAt([st EXCEPT !.fs = f, !.raced = TRUE], st.fs, f,
                          agent, name, dryRun,
                          Join(Root, agent.skillsDir),
                          Join(Join(Root, agent.skillsDir), <<name>>))
  ELSE CleanEntry(st, agent, name, dryRun)

RECURSIVE CleanEntryLoopRaced(_, _, _, _, _)
CleanEntryLoopRaced(st, agent, entries, dryRun, ext) ==
  IF entries = <<>> THEN st
  ELSE CleanEntryLoopRaced(CleanEntryRaced(st, agent, Head(entries), dryRun, ext),
                           agent, Tail(entries), dryRun, ext)

CleanAgentRaced(st, agent, dryRun, ext) ==
  IF st.threw THEN st
  ELSE LET agentSkillsDir == Join(Root, agent.skillsDir)
       IN IF ~existsSync(st.fs, agentSkillsDir) THEN st
          ELSE IF Lstat(st.fs, agentSkillsDir).kind /= "dir"
            THEN Throw(st, st.fs, "ENOTDIR: scandir")
          ELSE IF st.fs[agentSkillsDir].kind = "locked"
            THEN Throw(st, st.fs, "EACCES: scandir")
          ELSE CleanEntryLoopRaced(st, agent,
                                   readdirSync(st.fs, agentSkillsDir),
                                   dryRun, ext)

RECURSIVE CleanAgentLoopRaced(_, _, _, _)
CleanAgentLoopRaced(st, targets, dryRun, ext) ==
  IF targets = <<>> THEN st
  ELSE CleanAgentLoopRaced(CleanAgentRaced(st, Head(targets), dryRun, ext),
                           Tail(targets), dryRun, ext)

cleanSkillsRaced(f, opts, dryRun, ext) ==
  CleanAgentLoopRaced(RacedRunning(f), targetAgents(opts), dryRun, ext)

\* the pairs at which the other process may act
ExternalChoices ==
  {[agent |-> name, skill |-> n, entry |-> e] :
     name \in AgentNames, n \in Names, e \in ExternalEntries}

\* the trees the raced invocations start from: both items in the source
\* root, .claude/skills a writable directory with links to item a or
\* nothing, .opencode/skills missing or an empty directory
RaceTrees ==
  {f \in Trees :
     /\ \A n \in Names : f[CanonicalDir].entries[n] = RealDir
     /\ f[ClaudeDir].kind = "dir" /\ f[ClaudeDir].writable
     /\ \A n \in Names :
          f[ClaudeDir].entries[n]
            \in {NoEntry, Link(<<"..", "..", ".agents", "skills", "a">>)}
     /\ f[OpencodeDir] \in {MissingDir, Directory(TRUE, NoEntries)}}

RaceInit ==
  /\ fs \in RaceTrees
  /\ options \in {o \in OptionSets :
                    o.filterAgents = NoFilter /\ o.agents \in {agents, sharedAgents}}
  /\ last = Invocation("none", FALSE, FALSE, "none", EmptyResult, <<>>, fs)
  /\ external = NoExternal

SyncRaced ==
  \E dryRun \in BOOLEAN, ext \in ExternalChoices :
    \E r \in {syncSkillsRaced(fs, options, dryRun, ext)} :
      /\ r.raced
      /\ fs' = r.fs
      /\ last' = Invocation("sync", dryRun, ~r.threw, r.err,
                            IF r.threw THEN EmptyResult ELSE r.result,
                            <<>>, fs)
      /\ external' = ext
      /\ UNCHANGED options

CleanRaced ==
  \E dryRun \in BOOLEAN, ext \in ExternalChoices :
    \E r \in {cleanSkillsRaced(fs, options, dryRun, ext)} :
      /\ r.raced
      /\ fs' = r.fs
      /\ last' = Invocation("clean", dryRun, ~r.threw, r.err,
                            IF r.threw THEN EmptyResult ELSE r.result,
                            <<>>, fs)
      /\ external' = ext
      /\ UNCHANGED options

RaceNext == SyncRaced \/ CleanRaced

RaceSpec == RaceInit /\ [][RaceNext]_vars

----------------------------------------------------------------------------
(* Vocabulary of the properties *)

\* the (skill, agent) pairs of a list of outcomes
PairsOf(entries) ==
  {<<entries[i].skill, entries[i].agent>> : i \in 1..Len(entries)}

\* the pairs a list of outcomes reports with a given reason
PairsWith(entries, reason) ==
  {<<entries[i].skill, entries[i].agent>> :
     i \in {j \in 1..Len(entries) : entries[j].reason = reason}}

SeqToSet(s) == {s[i] : i \in 1..Len(s)}

\* the targets of the caller's options that take part in an invocation
Selected == SeqToSet(targetAgents(options))

\* the mirror root of a target
MirrorOf(agent) == Join(Root, agent.skillsDir)

\* the items discovery finds in a tree
ItemsOf(f) == SeqToSet(discoverSkills(f).skills)

\* the entry at the link location of (item, target) in a tree
EntryAt(f, agent, n) == Lstat(f, Join(MirrorOf(agent), <<n>>))

IsReal(e) == e.kind \in {"dir", "file"}

\* the text the engine stores for an item in a target's mirror root
ExpectedText(agent, n) ==
  Relative(MirrorOf(agent), Join(CanonicalDir, <<n>>))

IsCorrect(e, agent, n) == e.kind = "link" /\ e.text = ExpectedText(agent, n)

IsIncorrect(e, agent, n) == e.kind = "link" /\ e.text /= ExpectedText(agent, n)

\* the entries of a mirror root, by name (none of them when it is no directory)
EntriesOf(f, d) == [n \in Names |-> Lstat(f, Join(d, <<n>>))]

----------------------------------------------------------------------------
(* Properties *)

SyncAfterSync ==
  /\ last.op = "sync" /\ ~last.dryRun
  /\ last'.op = "sync" /\ ~last'.dryRun

\* C2 as stated: when a non-preview syncSkills is followed by a second one
\* with the same inputs, the second creates nothing and reports every
\* (item, target) pair as skipped with reason "already linked".
C2_SecondSyncAllAlreadyLinked ==
  [][ (SyncAfterSync /\ last'.returned) =>
        /\ last'.result.created = <<>>
        /\ \A agent \in Selected, n \in ItemsOf(fs) :
             <<n, agent.name>>
               \in PairsWith(last'.result.skipped, "already linked") ]_vars

\* C2 amended: the second of two consecutive non-preview syncSkills
\* invocations changes nothing and creates nothing; when it returns a report,
\* every (item, target) pair is skipped, with reason "already linked", or
\* "real directory exists, skipping" where the link location holds a
\* non-symlink entry.
C2_SecondSyncCreatesNothing ==
  [][ SyncAfterSync =>
        /\ fs' = fs
        /\ last'.result.created = <<>>
        /\ last'.returned =>
             \A agent \in Selected, n \in ItemsOf(fs) :
               <<n, agent.name>>
                 \in PairsWith(last'.result.skipped,
                               IF IsReal(EntryAt(fs, agent, n))
                                 THEN "real directory exists, skipping"
                                 ELSE "already linked") ]_vars

\* a non-preview sync that found nothing to do: a link in .opencode/skills
\* that only an earlier sync can have created is reported "already linked",
\* and a real entry is skipped as well
C2_Witness ==
  /\ last.op = "sync" /\ ~last.dryRun /\ last.returned
  /\ last.result.created = <<>>
  /\ last.pre = fs
  /\ \E agent \in Selected :
       /\ MirrorOf(agent) = OpencodeDir
       /\ <<"b", agent.name>>
            \in PairsWith(last.result.skipped, "already linked")
  /\ PairsWith(last.result.skipped, "real directory exists, skipping") /= {}

\* an earlier selected target mirrors into the same directory as this one
HasEarlierSharing(agent) ==
  LET t == targetAgents(options)
  IN \E i, j \in 1..Len(t) :
       i < j /\ t[j] = agent /\ MirrorOf(t[i]) = MirrorOf(agent)

Inside(p, dir) == Len(p) >= Len(dir) /\ SubSeq(p, 1, Len(dir)) = dir

\* C4 as stated: cleanSkills never removes an entry of a mirror root that is
\* not a symbolic link, and never removes a symbolic link whose resolved
\* destination (mirror root joined with the stored text) lies outside the
\* canonical source root, a sibling such as .agents/skills-old included.
C4_CleanRemovesOnlyCanonicalLinks ==
  last.op = "clean" =>
    \A i \in 1..Len(options.agents), n \in Names :
      LET agent == options.agents[i]
          e     == EntryAt(last.pre, agent, n)
      IN /\ IsReal(e) => EntryAt(fs, agent, n) = e
         /\ (e.kind = "link"
               /\ ~Inside(Join(MirrorOf(agent), e.text), CanonicalDir))
              => EntryAt(fs, agent, n) = e

\* C5: syncSkills and cleanSkills called with dryRun leave the tree as it
\* was: no link created or removed, no mirror root created.
C5_PreviewChangesNothing ==
  (last.op \in {"sync", "clean"} /\ last.dryRun) => fs = last.pre

\* a preview sync reported created for a pair that holds an incorrect link
\* and for a pair whose mirror root does not exist
C5_Witness ==
  /\ last.op = "sync" /\ last.dryRun /\ last.returned
  /\ \E agent, other \in Selected, n \in Names :
       /\ IsIncorrect(EntryAt(last.pre, agent, n), agent, n)
       /\ <<n, agent.name>> \in PairsOf(last.result.created)
       /\ last.pre[MirrorOf(other)].kind = "missing"
       /\ <<n, other.name>> \in PairsOf(last.result.created)

\* C6 as stated: the report of a preview run is the report the non-preview
\* run from the same tree returns (a preview leaves the tree as it was, so
\* the run that follows it starts from the same tree).
C6_PreviewReportIsRealReport ==
  [][ (/\ last.op \in {"sync", "clean"} /\ last'.op = last.op
       /\ last.dryRun /\ ~last'.dryRun
       /\ last.returned /\ last'.returned)
        => last'.result = last.result ]_vars

MutationErrors ==
  {"EEXIST: mkdir", "EACCES: mkdir", "ENOENT: symlink", "EEXIST: symlink",
   "EACCES: symlink", "ENOENT: unlink", "EPERM: unlink", "EACCES: unlink"}

\* C8 as stated: when creating or removing a link fails, syncSkills and
\* cleanSkills record the pair in failed and still return a report.
C8_MutationFailureIsPairLocal ==
  (last.op \in {"sync", "clean"} /\ last.err \in MutationErrors) =>
    /\ last.returned
    /\ last.result.failed /= <<>>

\* C9: when the canonical source root does not exist, syncSkills and
\* getStatus raise the error that names .agents/skills, return nothing and
\* leave the tree as it was.
C9_MissingSourceIsFatal ==
  (last.op \in {"sync", "status"} /\ last.pre[CanonicalDir].kind = "missing") =>
    /\ ~last.returned
    /\ last.err = ConfigError
    /\ last.result = EmptyResult
    /\ last.status = <<>>
    /\ fs = last.pre

\* a non-preview sync was called without a source root on a tree in which one
\* selected mirror root is missing and another holds an incorrect link
C9_Witness ==
  /\ last.op = "sync" /\ ~last.dryRun /\ ~last.returned
  /\ last.pre[CanonicalDir].kind = "missing"
  /\ \E agent, other \in Selected, n \in Names :
       /\ last.pre[MirrorOf(agent)].kind = "missing"
       /\ IsIncorrect(EntryAt(last.pre, other, n), other, n)

\* the mirror roots of the selected targets
SelectedDirs == {MirrorOf(agent) : agent \in Selected}

NoLinksIn(f, d) == \A n \in Names : EntriesOf(f, d)[n].kind /= "link"

\* C10: a non-preview syncSkills on a tree whose selected mirror roots hold
\* no symbolic link, followed by a non-preview cleanSkills, leaves every
\* selected mirror root with the entries it had before the sync; when both
\* return a report, the pairs the clean reports removed are the pairs the
\* sync reported created.
C10_CleanUndoesSync ==
  [][ (/\ last.op = "sync" /\ ~last.dryRun
       /\ \A d \in SelectedDirs : NoLinksIn(last.pre, d)
       /\ last'.op = "clean" /\ ~last'.dryRun) =>
        /\ \A d \in SelectedDirs : EntriesOf(fs', d) = EntriesOf(last.pre, d)
        /\ (last.returned /\ last'.returned) =>
             PairsOf(last'.result.created) = PairsOf(last.result.created) ]_vars

\* a non-preview clean removed links that only a sync can have created (the
\* correct link of item b in .opencode/skills) and left no link behind
C10_Witness ==
  /\ last.op = "clean" /\ ~last.dryRun /\ last.returned
  /\ \A d \in SelectedDirs : NoLinksIn(fs, d)
  /\ \E agent \in Selected :
       /\ MirrorOf(agent) = OpencodeDir
       /\ IsCorrect(EntryAt(last.pre, agent, "b"), agent, "b")
       /\ <<"b", agent.name>> \in PairsOf(last.result.created)
       /\ \E n \in Names : IsReal(EntryAt(fs, agent, n))

\* the configured targets that the filter leaves out
Unselected ==
  {agent \in SeqToSet(options.agents) :
     options.filterAgents /= NoFilter /\ agent.name \notin options.filterAgents}

\* the mirror roots of the configured targets that the filter keeps
KeptDirs == {MirrorOf(agent) : agent \in SeqToSet(options.agents) \ Unselected}

\* the names the outcomes of a report and the entries of a status mention
MentionedAgents ==
  {last.result.created[i].agent : i \in 1..Len(last.result.created)}
    \cup {last.result.skipped[i].agent : i \in 1..Len(last.result.skipped)}
    \cup {last.result.failed[i].agent : i \in 1..Len(last.result.failed)}
    \cup {last.status[i].agent : i \in 1..Len(last.status)}

\* C11 as stated: with a filter, syncSkills, cleanSkills and getStatus
\* neither create nor modify the mirror root of any configured target that
\* is not in the filter, and no outcome or status entry mentions it.
C11_UnselectedMirrorUntouched ==
  last.op /= "none" =>
    \A agent \in Unselected :
      /\ fs[MirrorOf(agent)] = last.pre[MirrorOf(agent)]
      /\ agent.name \notin MentionedAgents

\* C11 amended: with a filter, no outcome or status entry mentions a target
\* that is not in the filter, and the mirror root of such a target is
\* neither created nor modified unless it is also the mirror root of a
\* target in the filter.
C11_FilterIsFrame ==
  last.op /= "none" =>
    /\ \A agent \in Unselected :
         /\ MirrorOf(agent) \notin KeptDirs
              => fs[MirrorOf(agent)] = last.pre[MirrorOf(agent)]
         /\ agent.name \notin MentionedAgents
    /\ MentionedAgents
         \subseteq {agent.name : agent \in SeqToSet(options.agents) \ Unselected}

\* a filtered non-preview sync created links for the target in the filter
\* while the mirror root of the target left out, a different directory that
\* does not exist, was not created
C11_Witness ==
  /\ last.op = "sync" /\ ~last.dryRun /\ last.returned
  /\ last.result.created /= <<>>
  /\ \E agent \in Unselected :
       /\ MirrorOf(agent) \notin KeptDirs
       /\ last.pre[MirrorOf(agent)].kind = "missing"
       /\ fs[MirrorOf(agent)].kind = "missing"

\* the outcomes of a report, all three lists together
AllOutcomes(result) == result.created \o result.skipped \o result.failed

\* how many outcomes of a list are about a pair
CountOf(entries, n, name) ==
  Cardinality({i \in 1..Len(entries) :
                 entries[i].skill = n /\ entries[i].agent = name})

\* the position of an element in a sequence without repetition (0: not in it)
PosIn(s, x) ==
  IF \E i \in 1..Len(s) : s[i] = x
    THEN CHOOSE i \in 1..Len(s) : s[i] = x
  ELSE 0

\* the outcomes of one target in a list appear in the order of discovery
InDiscoveryOrder(entries, skills) ==
  \A i, j \in 1..Len(entries) :
    (i < j /\ entries[i].agent = entries[j].agent)
      => PosIn(skills, entries[i].skill) < PosIn(skills, entries[j].skill)

\* the names of the targets the filter keeps, read off the options
KeptNames ==
  {agent.name : agent \in SeqToSet(options.agents) \ Unselected}

\* C12: whenever syncSkills returns, every (discovered item, selected
\* target) pair has exactly one outcome across created, skipped and failed,
\* no other pair has one, the outcomes of a target follow the order of
\* discovery in each list, and with no discovered item the three lists are
\* empty.
C12_ReportIsComplete ==
  (last.op = "sync" /\ last.returned) =>
    LET skills == discoverSkills(last.pre).skills
        all    == AllOutcomes(last.result)
    IN /\ \A n \in SeqToSet(skills), name \in KeptNames :
            CountOf(all, n, name) = 1
       /\ PairsOf(all) \subseteq SeqToSet(skills) \X KeptNames
       /\ InDiscoveryOrder(last.result.created, skills)
       /\ InDiscoveryOrder(last.result.skipped, skills)
       /\ InDiscoveryOrder(last.result.failed, skills)
       /\ skills = <<>> => last.result = EmptyResult

\* a non-preview sync of two items to two targets returned a report with
\* four outcomes, some created and some skipped
C12_Witness ==
  /\ last.op = "sync" /\ ~last.dryRun /\ last.returned
  /\ Len(discoverSkills(last.pre).skills) = 2
  /\ Cardinality(KeptNames) = 2
  /\ Len(last.result.created) = 2
  /\ Len(last.result.skipped) = 2
  /\ \E i, j \in 1..2 :
       last.result.created[i].agent = last.result.skipped[j].agent

\* the entry now at the link location where the other process acted
ExternalLocationNow ==
  LET agent == CHOOSE x \in SeqToSet(options.agents) : x.name = external.agent
  IN EntryAt(fs, agent, external.skill)

\* C13 as stated: when another process puts a non-symlink entry at a link
\* location between the engine's inspection and its mutating call, syncSkills
\* and cleanSkills do not remove that entry, and an invocation whose mutating
\* call fails returns a report with the pair in failed.
C13_RaceNeverRemovesRealEntry ==
  (last.op \in {"sync", "clean"} /\ external /= NoExternal) =>
    /\ ExternalLocationNow = external.entry
    /\ last.err \in MutationErrors =>
         /\ last.returned
         /\ <<external.skill, external.agent>> \in PairsOf(last.result.failed)

\* what an invocation reports for a pair: the list and the reason, or
\* nothing when no report is returned
OutcomeOf(returned, result, n, name) ==
  IF ~returned THEN <<"no report">>
  ELSE IF \E i \in 1..Len(result.created) :
            result.created[i].skill = n /\ result.created[i].agent = name
    THEN <<"created">>
  ELSE IF \E i \in 1..Len(result.skipped) :
            result.skipped[i].skill = n /\ result.skipped[i].agent = name
    THEN <<"skipped",
           result.skipped[CHOOSE i \in 1..Len(result.skipped) :
                            result.skipped[i].skill = n
                              /\ result.skipped[i].agent = name].reason>>
  ELSE IF \E i \in 1..Len(result.failed) :
            result.failed[i].skill = n /\ result.failed[i].agent = name
    THEN <<"failed">>
  ELSE <<"none">>

\* the entries a tree is varied with at one link location
VariedEntries == {NoEntry, RealDir, Link(<<"..", "..", ".agents", "skills", "a">>)}

\* the trees that differ from f at exactly one link location of a mirror
\* root, other than the location (d, n)
VariantsOf(f, d, n) ==
  {Put(f, dd, m, e) : <<dd, m, e>> \in
     {x \in MirrorDirs \X Names \X VariedEntries :
        /\ f[x[1]].kind = "dir"
        /\ <<x[1], x[2]>> /= <<d, n>>
        /\ f[x[1]].entries[x[2]] /= x[3]}}

\* C14 as stated: the outcome syncSkills reports for a pair and the final
\* entry at its link location are the same from any tree that differs only
\* at the link location of another pair.
C14_PairOutcomeIsLocal ==
  last.op = "sync" =>
    \A agent \in SeqToSet(targetAgents(options)), n \in ItemsOf(last.pre) :
      \A g \in VariantsOf(last.pre, MirrorOf(agent), n) :
        LET r == syncSkills(g, options, last.dryRun)
        IN /\ OutcomeOf(~r.threw, r.result, n, agent.name)
                = OutcomeOf(last.returned, last.result, n, agent.name)
           /\ EntryAt(r.fs, agent, n) = EntryAt(fs, agent, n)

\* the mirror root of a target cannot be searched: lstat of a link location
\* in it fails with an error other than "no such entry"
InspectionFails(f, agent) == f[MirrorOf(agent)].kind = "locked"

\* C15 as stated: a pair whose link location cannot be inspected is not
\* handled as absent by syncSkills: no link creation is attempted and the
\* pair is not reported created; the invocation returns a report with the
\* pair in failed.
C15_InspectionFailureIsNotAbsent ==
  last.op = "sync" =>
    \A agent \in SeqToSet(targetAgents(options)), n \in ItemsOf(last.pre) :
      InspectionFails(last.pre, agent) =>
        /\ last.err \notin {"EACCES: symlink", "EACCES: mkdir"}
        /\ <<n, agent.name>> \notin PairsOf(last.result.created)
        /\ last.returned
        /\ <<n, agent.name>> \in PairsOf(last.result.failed)

\* a symbolic link that leads to the item's source directory under another
\* spelling than the one the engine generates
IsEquivalentSpelling(e, agent, n) ==
  /\ IsIncorrect(e, agent, n)
  /\ ResolveLink(MirrorOf(agent), e.text) = Join(CanonicalDir, <<n>>)

\* the items getStatus lists under wrong for a target in a tree
WrongOf(f, agent) ==
  LET t == targetAgents(options)
  IN SeqToSet(getStatus(f, options).statuses[PosIn(t, agent)].wrong)

C17_OneOutcomePerEntry ==
  (last.op = "clean" /\ last.returned) =>
    \A agent \in SeqToSet(targetAgents(options)), n \in Names :
      LET e   == EntryAt(last.pre, agent, n)
          all == AllOutcomes(last.result)
      IN /\ CountOf(all, n, agent.name) = IF e.kind = "none" THEN 0 ELSE 1
         /\ (e.kind = "link"
               /\ Inside(Join(MirrorOf(agent), e.text), CanonicalDir)) =>
              /\ <<n, agent.name>> \in PairsOf(last.result.created)
              /\ ~last.dryRun => EntryAt(fs, agent, n) = NoEntry

\* C17 amended: when cleanSkills returns, every entry present in the mirror
\* root of a selected target has exactly one outcome for that target and a
\* name without entry has none, except that in a non-preview run a link
\* removed for one target has no outcome for a later selected target with
\* the same mirror root; a symbolic link that resolves under the canonical
\* source root is reported removed for the first selected target of its
\* mirror root and, in a non-preview run, is gone, whether or not the item
\* it names exists.
C17_CleanIsDrivenByEntries ==
  (last.op = "clean" /\ last.returned) =>
    \A agent \in SeqToSet(targetAgents(options)), n \in Names :
      LET e    == EntryAt(last.pre, agent, n)
          all  == AllOutcomes(last.result)
          late == /\ ~last.dryRun /\ HasEarlierSharing(agent)
                  /\ EntryAt(fs, agent, n) = NoEntry
      IN /\ CountOf(all, n, agent.name)
              = IF e.kind = "none" \/ late THEN 0 ELSE 1
         /\ (e.kind = "link"
               /\ Inside(Join(MirrorOf(agent), e.text), CanonicalDir)) =>
              /\ ~HasEarlierSharing(agent)
                   => <<n, agent.name>> \in PairsOf(last.result.created)
              /\ ~last.dryRun => EntryAt(fs, agent, n) = NoEntry

\* a non-preview clean removed a link to an item that is not in the source
\* root any more, and skipped a real entry of the same mirror root
C17_Witness ==
  /\ last.op = "clean" /\ ~last.dryRun /\ last.returned
  /\ \E agent \in Selected, n, m \in Names :
       LET e == EntryAt(last.pre, agent, n)
       IN /\ e.kind = "link"
          /\ Inside(Join(MirrorOf(agent), e.text), CanonicalDir)
          /\ Last(e.text) \notin ItemsOf(last.pre)
          /\ ~existsSync(last.pre, Join(MirrorOf(agent), <<n>>))
          /\ last.pre[CanonicalDir].kind = "dir"
          /\ EntryAt(fs, agent, n) = NoEntry
          /\ <<n, agent.name>> \in PairsOf(last.result.created)
          /\ IsReal(EntryAt(last.pre, agent, m))
          /\ <<m, agent.name>> \in PairsOf(last.result.skipped)

\* C18 as stated: whatever the target configuration, no invocation of
\* syncSkills or cleanSkills creates, removes or replaces an entry of the
\* canonical source root.
C18_SourceIsNeverMutated ==
  last.op \in {"sync", "clean"} => fs[CanonicalDir] = last.pre[CanonicalDir]

\* how often an item occurs in the three lists of a status entry
BucketCount(st, n) ==
  Cardinality({i \in 1..Len(st.linked) : st.linked[i] = n})
    + Cardinality({i \in 1..Len(st.unlinked) : st.unlinked[i] = n})
    + Cardinality({i \in 1..Len(st.wrong) : st.wrong[i] = n})

\* the lists of a status entry are the classes of the link locations (those
\* whose metadata can be read): each item is in one list, linked for a
\* correct symlink or a non-symlink entry, unlinked for an absent location,
\* wrong for a symlink with another text
BucketsAreClasses(st, f, agent, items) ==
  \A n \in items :
    LET e == EntryAt(f, agent, n)
    IN e /= Unreadable =>
         /\ BucketCount(st, n) = 1
         /\ n \in SeqToSet(st.linked) <=> (IsCorrect(e, agent, n) \/ IsReal(e))
         /\ n \in SeqToSet(st.unlinked) <=> e.kind = "none"
         /\ n \in SeqToSet(st.wrong) <=> IsIncorrect(e, agent, n)

\* syncSkills from tree f reports the pair skipped
SyncSkips(f, dryRun, n, agent) ==
  LET r == syncSkills(f, options, dryRun)
  IN OutcomeOf(~r.threw, r.result, n, agent.name)[1] = "skipped"

ReplayFrom(f, inv) ==
  LET r == IF inv.op = "sync" THEN syncSkills(f, options, inv.dryRun)
           ELSE cleanSkills(f, options, inv.dryRun)
  IN [returned |-> ~r.threw, err |-> r.err,
      result |-> IF r.threw THEN EmptyResult ELSE r.result, fs |-> r.fs]

\* C20: getStatus leaves the tree as it was, and a syncSkills or cleanSkills
\* invocation that follows a getStatus call returns the report, and leaves
\* the tree, it would have without that call.
C20_StatusIsReadOnly ==
  [][ /\ last'.op = "status" => fs' = fs
      /\ (last.op = "status" /\ last'.op \in {"sync", "clean"}) =>
           LET r == ReplayFrom(last.pre, last')
           IN /\ last'.returned = r.returned
              /\ last'.err = r.err
              /\ last'.result = r.result
              /\ fs' = r.fs ]_vars

\* getStatus returned on a tree in which a non-preview sync has links to
\* create and a non-preview clean has links to remove, and the tree is as
\* it was before the call
C20_Witness ==
  /\ last.op = "status" /\ last.returned
  /\ fs = last.pre
  /\ syncSkills(fs, options, FALSE).result.created /= <<>>
  /\ cleanSkills(fs, options, FALSE).result.created /= <<>>
  /\ \E i \in 1..Len(last.status) : last.status[i].wrong /= <<>>

\* C21 as stated: when syncSkills returns, a pair is skipped with reason
\* "already linked" exactly when its link location held the correct symlink,
\* skipped with reason "real entry exists, preserving" exactly when it held a
\* non-symlink entry, and created, without reason, exactly when it was absent
\* or held an incorrect symlink; every skipped outcome has a reason.
C21_SyncDecisionPolicy ==
  (last.op = "sync" /\ last.returned) =>
    /\ \A agent \in SeqToSet(targetAgents(options)), n \in ItemsOf(last.pre) :
         LET e == EntryAt(last.pre, agent, n)
             p == <<n, agent.name>>
         IN /\ p \in PairsWith(last.result.skipped, "already linked")
                 <=> IsCorrect(e, agent, n)
            /\ p \in PairsWith(last.result.skipped,
                                "real entry exists, preserving")
                 <=> IsReal(e)
            /\ p \in PairsWith(last.result.created, NoReason)
                 <=> (e.kind = "none" \/ IsIncorrect(e, agent, n))
    /\ \A i \in 1..Len(last.result.skipped) :
         last.result.skipped[i].reason /= NoReason

\* C22: after a syncSkills invocation every entry of a directory of the tree
\* whose name is not the name of a discovered item is what it was before,
\* and a non-preview syncSkills that returns has changed the tree only if
\* its created list is not empty.
C22_SyncTouchesOnlyItemLocations ==
  last.op = "sync" =>
    /\ \A d \in Dirs, n \in Names \ ItemsOf(last.pre) :
         fs[d].entries[n] = last.pre[d].entries[n]
    /\ (last.returned /\ fs /= last.pre) => last.result.created /= <<>>

\* a non-preview sync created a link for the only item and left alone, under
\* a name that is no item, a symlink into the canonical source in one mirror
\* root
C22_Witness ==
  /\ last.op = "sync" /\ ~last.dryRun /\ last.returned
  /\ last.result.created /= <<>>
  /\ fs /= last.pre
  /\ ItemsOf(last.pre) = {"a"}
  /\ \E agent \in Selected :
       LET e == EntryAt(last.pre, agent, "b")
       IN /\ e.kind = "link"
          /\ Inside(Join(MirrorOf(agent), e.text), CanonicalDir)
          /\ EntryAt(fs, agent, "b") = e

\* C23: a cleanSkills that immediately follows a non-preview cleanSkills with
\* the same inputs changes nothing and reports nothing removed; when both
\* return a report, it reports the skipped entries of the first run, with
\* the same reasons; and in any cleanSkills a selected target whose mirror
\* root does not exist gets no outcome and its mirror root is not created.
C23_CleanIsIdempotent ==
  [][ /\ (last.op = "clean" /\ ~last.dryRun
            /\ last'.op = "clean" /\ ~last'.dryRun) =>
           /\ fs' = fs
           /\ last'.result.created = <<>>
           /\ last'.returned = last.returned
           /\ (last.returned /\ last'.returned)
                => last'.result.skipped = last.result.skipped
      /\ last'.op = "clean" =>
           \A agent \in SeqToSet(targetAgents(options)) :
             fs[MirrorOf(agent)].kind = "missing" =>
               /\ fs'[MirrorOf(agent)].kind = "missing"
               /\ \A n \in Names :
                    CountOf(AllOutcomes(last'.result), n, agent.name) = 0 ]_vars

\* a non-preview clean on a tree an earlier clean has left without links
\* into the canonical source: it removed nothing, changed nothing, skipped a
\* real entry and a symlink that points elsewhere, and passed over a selected
\* target whose mirror root does not exist
C23_Witness ==
  /\ last.op = "clean" /\ ~last.dryRun /\ last.returned
  /\ last.result.created = <<>>
  /\ fs = last.pre
  /\ PairsWith(last.result.skipped, "not a symlink, preserving") /= {}
  /\ PairsWith(last.result.skipped, "symlink points elsewhere, preserving") /= {}
  /\ \E agent \in Selected :
       /\ fs[MirrorOf(agent)].kind = "missing"
       /\ agent.name \notin MentionedAgents

\* a symbolic link that leads out of the canonical source root
IsForeign(e, agent) ==
  /\ e.kind = "link"
  /\ ~Inside(ResolveLink(MirrorOf(agent), e.text), CanonicalDir)

\* C24 as stated: a symbolic link at the link location of an item that
\* points outside the canonical source root is kept by a cleanSkills that
\* returns, which reports it skipped as pointing elsewhere; a non-preview
\* syncSkills that returns replaces it by the generated link, and the
\* non-preview cleanSkills that follows leaves the location absent.
C24_ForeignLinkAsymmetry ==
  [][ /\ (last'.op = "clean" /\ last'.returned) =>
           \A agent \in SeqToSet(targetAgents(options)), n \in ItemsOf(fs) :
             IsForeign(EntryAt(fs, agent, n), agent) =>
               /\ EntryAt(fs', agent, n) = EntryAt(fs, agent, n)
               /\ <<n, agent.name>>
                    \in PairsWith(last'.result.skipped,
                                  "symlink points elsewhere, preserving")
      /\ (/\ last.op = "sync" /\ ~last.dryRun /\ last.returned
          /\ last'.op = "clean" /\ ~last'.dryRun /\ last'.returned) =>
           \A agent \in SeqToSet(targetAgents(options)),
              n \in ItemsOf(last.pre) :
             IsForeign(EntryAt(last.pre, agent, n), agent) =>
               /\ IsCorrect(EntryAt(fs, agent, n), agent, n)
               /\ EntryAt(fs', agent, n) = NoEntry ]_vars

====
